---- MODULE Spec2Model ----
(***************************************************************************)
(* TFRecord converter (src/functions/tfrecord-converter/main.py):          *)
(* find_image_folder, collect_images, create_example, write_shards and     *)
(* the convert_to_tfrecord handler, as state machines over a small file    *)
(* system, a status document (the Firestore project document) and a blob   *)
(* store.                                                                  *)
(*                                                                         *)
(* A path is the sequence of entry names below the extraction directory.   *)
(* A directory entry is a record                                           *)
(*   [name, ext, isdir, listing, ok, slen]                                 *)
(* name+ext is the entry's file name, listing is what os.listdir returns   *)
(* for a directory (in listing order), ok says whether open()/read() of a  *)
(* file succeeds, slen is the byte length of the file's serialized         *)
(* tf.train.Example.                                                       *)
(***************************************************************************)
EXTENDS Integers, Sequences, FiniteSets, TLC

VARIABLES
  tree,              \* the extracted archive: the entry of extract_dir
  max_depth,         \* find_image_folder's max_depth argument
  found,             \* find_image_folder's return value with the directories search() examined
  shard_size_mb,     \* request field shardSizeMB
  val_split,         \* request field valSplit, as a numerator over FracDen
  pc,                \* position in the handler / in write_shards
  err,               \* str(e) of the exception that reached the handler's except clause
  folders,           \* convert_to_tfrecord: folders
  class_names,       \* convert_to_tfrecord: class_names
  shuffled,          \* the list object random.shuffle permuted in place (line 259)
  train_images,      \* convert_to_tfrecord: train_images
  val_images,        \* convert_to_tfrecord: val_images
  test_images,       \* convert_to_tfrecord: test_images
  images,            \* write_shards: the images argument
  output_prefix,     \* write_shards: basename of the output_prefix argument
  shard_size_bytes,  \* write_shards: the shard_size_bytes argument
  pos,               \* write_shards: number of samples the for loop has taken
  ws,                \* write_shards: locals shard_paths, checksums, shard_idx, current_size, writer, current_shard_path
  disk,              \* shards_dir: file name -> sequence of records written to it
  all_shard_paths,   \* convert_to_tfrecord: all_shard_paths
  all_checksums,     \* convert_to_tfrecord: all_checksums
  metadata,          \* convert_to_tfrecord: metadata (metadata.json)
  uploaded,          \* blob store: names of the files of shards_dir uploaded so far
  sink,              \* the project document: dataset.* fields
  sinkLog,           \* conversionStatus values written to the project document, in order
  sinkRaised,        \* the project_ref.update calls that raised
  failedTold,        \* the except clause issued its 'failed' update
  result             \* the HTTP response

vars == <<tree, max_depth, found, shard_size_mb, val_split, pc, err, folders,
          class_names, shuffled, train_images, val_images, test_images, images,
          output_prefix, shard_size_bytes, pos, ws, disk, all_shard_paths,
          all_checksums, metadata, uploaded, sink, sinkLog, sinkRaised,
          failedTold, result>>

findVars == <<tree, max_depth, found>>
requestVars == <<shard_size_mb, val_split>>
splitVars == <<folders, class_names, shuffled, train_images, val_images, test_images>>
shardVars == <<images, output_prefix, shard_size_bytes, pos, ws, disk>>
manifestVars == <<all_shard_paths, all_checksums, metadata, uploaded>>
sinkVars == <<sink, sinkLog, sinkRaised, failedTold>>

(***************************************************************************)
(* Bounds of the model.                                                    *)
(***************************************************************************)
MaxSearchDepth == 2   \* max_depth ranges over 0..MaxSearchDepth in SpecFind
MaxImages == 4        \* longest sample sequence given to write_shards in SpecShards
MaxLen == 2           \* largest serialized record length in SpecShards
MaxThreshold == 3     \* largest shard_size_bytes in SpecShards
MaxPerClass == 3      \* most image files in the cat class folder of a pipeline run
MaxShardMB == 2       \* largest shardSizeMB of a pipeline run
FracBits == 2         \* valSplit ranges over k / 2^FracBits

(***************************************************************************)
(* Program constants.                                                      *)
(***************************************************************************)
ListCap == 20            \* has_images: os.listdir(folder)[:20]
DefaultMaxDepth == 4     \* find_image_folder(base_path, max_depth=4)
MiB == 1048576           \* shard_size_mb * 1024 * 1024
PadWidth == 5            \* {shard_idx:05d}
ClassNameCap == 50       \* class_names[:50]

RECURSIVE Pow2(_)
Pow2(n) == IF n = 0 THEN 1 ELSE 2 * Pow2(n - 1)

FracDen == Pow2(FracBits)

Min(a, b) == IF a < b THEN a ELSE b

Range(s) == {s[i] : i \in 1..Len(s)}

(***************************************************************************)
(* File system entries.                                                    *)
(***************************************************************************)
NonePath == <<"/None">>   \* Python's None where a path is expected

Dir(name, listing) ==
  [name |-> name, ext |-> "", isdir |-> TRUE, listing |-> listing, ok |-> TRUE, slen |-> 0]

File(name, ext, ok, slen) ==
  [name |-> name, ext |-> ext, isdir |-> FALSE, listing |-> <<>>, ok |-> ok, slen |-> slen]

\* file names of the model
PadNames ==
  <<"n01", "n02", "n03", "n04", "n05", "n06", "n07", "n08", "n09", "n10",
    "n11", "n12", "n13", "n14", "n15", "n16", "n17", "n18", "n19", "n20">>

\* str.lower() on the names and extensions the model uses
Lower(s) ==
  CASE s = "Train" -> "train"
    [] s = "TRAIN" -> "train"
    [] s = "Training" -> "training"
    [] s = "Test" -> "test"
    [] s = "Val" -> "val"
    [] s = ".JPG" -> ".jpg"
    [] s = ".PNG" -> ".png"
    [] OTHER -> s

ImageExtensions == {".png", ".jpg", ".jpeg", ".webp", ".gif", ".bmp"}

SearchExcluded == {"__pycache__", ".git", "__MACOSX", ".DS_Store"}

ClassExcluded == {"__pycache__", "__MACOSX"}

\* f.lower().endswith(extensions): a directory's name carries no extension here
IsImageName(e) == Lower(e.ext) \in ImageExtensions

IsSearchSubdir(e) == e.isdir /\ e.name \notin SearchExcluded

get_subdirs(node) == SelectSeq(node.listing, IsSearchSubdir)

has_images(folder) ==
  \E i \in 1..Min(ListCap, Len(folder.listing)) : IsImageName(folder.listing[i])

(***************************************************************************)
(* find_image_folder.search.  The value is the returned dictionary (or     *)
(* None) together with the directories search() was called on and did not  *)
(* cut off at the depth limit, in call order.                              *)
(***************************************************************************)
None == [found |-> FALSE, train |-> NonePath, test |-> NonePath, base |-> NonePath]

Layout(train, test, base) == [found |-> TRUE, train |-> train, test |-> test, base |-> base]

\* subdir_lower = {d.lower(): d for d in subdirs}: a later entry replaces an earlier one
InSubdirLower(subdirs, name) == \E i \in 1..Len(subdirs) : Lower(subdirs[i].name) = name

SubdirLower(subdirs, name) ==
  subdirs[CHOOSE i \in 1..Len(subdirs) :
            /\ Lower(subdirs[i].name) = name
            /\ \A j \in (i + 1)..Len(subdirs) : Lower(subdirs[j].name) # name]

\* for t in ['test', 'val', 'validation']: the first present, else None
TestDirOf(subdirs, path) ==
  IF InSubdirLower(subdirs, "test") THEN Append(path, SubdirLower(subdirs, "test").name)
  ELSE IF InSubdirLower(subdirs, "val") THEN Append(path, SubdirLower(subdirs, "val").name)
  ELSE IF InSubdirLower(subdirs, "validation")
       THEN Append(path, SubdirLower(subdirs, "validation").name)
  ELSE NonePath

\* the condition of line 87 for the subdirectory registered under `name`
FirstSubdirOnly(train_subdirs) == train_subdirs # <<>> /\ has_images(train_subdirs[1])

TrainAccepts(subdirs, name) ==
  /\ InSubdirLower(subdirs, name)
  /\ FirstSubdirOnly(get_subdirs(SubdirLower(subdirs, name)))

\* for name in ['train', 'training']: ... return {...}
TrainRule(subdirs, path) ==
  IF TrainAccepts(subdirs, "train")
  THEN Layout(Append(path, SubdirLower(subdirs, "train").name), TestDirOf(subdirs, path), path)
  ELSE IF TrainAccepts(subdirs, "training")
  THEN Layout(Append(path, SubdirLower(subdirs, "training").name), TestDirOf(subdirs, path), path)
  ELSE None

FlatRule(subdirs) == Len(subdirs) > 1 /\ has_images(subdirs[1])

RECURSIVE search(_, _, _, _)
RECURSIVE search_children(_, _, _, _, _)
search(node, path, depth, md) ==
  IF depth > md THEN [res |-> None, visited |-> <<>>]
  ELSE LET subdirs == get_subdirs(node)
           here == <<[path |-> path, node |-> node]>>
       IN IF TrainRule(subdirs, path).found
          THEN [res |-> TrainRule(subdirs, path), visited |-> here]
          ELSE IF FlatRule(subdirs)
          THEN [res |-> Layout(path, NonePath, path), visited |-> here]
          ELSE LET below == search_children(subdirs, 1, path, depth, md)
               IN [res |-> below.res, visited |-> here \o below.visited]

\* for subdir in subdirs: result = search(...); if result: return result
search_children(subdirs, k, path, depth, md) ==
  IF k > Len(subdirs) THEN [res |-> None, visited |-> <<>>]
  ELSE LET r == search(subdirs[k], Append(path, subdirs[k].name), depth + 1, md)
       IN IF r.res.found THEN r
          ELSE LET rest == search_children(subdirs, k + 1, path, depth, md)
               IN [res |-> rest.res, visited |-> r.visited \o rest.visited]

find_image_folder(base, md) == search(base, <<>>, 0, md)

(***************************************************************************)
(* collect_images and create_example.  A sample is (img_path, label); the  *)
(* attributes of the file at img_path (extension, readability, serialized  *)
(* length) ride along in the sample record.                                *)
(***************************************************************************)
Sample(class_path, f, class_idx) ==
  [path |-> Append(class_path, f.name), ext |-> f.ext, label |-> class_idx,
   ok |-> f.ok, slen |-> f.slen]

RECURSIVE collect_images(_, _, _)
\* class_dir is the directory entry, class_path its path
collect_images(listing, class_path, class_idx) ==
  IF listing = <<>> THEN <<>>
  ELSE (IF IsImageName(Head(listing))
        THEN <<Sample(class_path, Head(listing), class_idx)>>
        ELSE <<>>) \o collect_images(Tail(listing), class_path, class_idx)

\* open(img_path, 'rb') / f.read() raises
create_example_raises(img) == ~img.ok

\* example.SerializeToString(): image bytes (the file at img_path), label, base name
create_example(img) ==
  [image |-> img.path, label |-> img.label,
   filename |-> <<img.path[Len(img.path)], img.ext>>, len |-> img.slen]

(***************************************************************************)
(* write_shards.                                                           *)
(***************************************************************************)
RECURSIVE Digits(_)
Digits(n) == IF n < 10 THEN <<n>> ELSE Append(Digits(n \div 10), n % 10)

\* format(n, '05d'): zero-padded to five digits, wider when n needs more
ZeroPad(n) ==
  LET d == Digits(n)
  IN IF Len(d) >= PadWidth THEN d ELSE [i \in 1..(PadWidth - Len(d)) |-> 0] \o d

\* os.path.basename(f"{output_prefix}-{shard_idx:05d}.tfrecord")
ShardName(prefix, idx) == [prefix |-> prefix, digits |-> ZeroPad(idx), ext |-> ".tfrecord"]

RECURSIVE SumLen(_)
SumLen(content) == IF content = <<>> THEN 0 ELSE Head(content).len + SumLen(Tail(content))

RECURSIVE Fold(_, _)
Fold(h, content) ==
  IF content = <<>> THEN h
  ELSE Fold((31 * h + 7 * Head(content).len + Head(content).label
             + 3 * Len(Head(content).image) + 1) % 65521, Tail(content))

\* hashlib.md5(f.read()).hexdigest(): a digest of the file's content
MD5(content) == Fold(17, content)

\* dict[key] = value
Put(dict, key, value) == (key :> value) @@ dict

\* faulty variant of CloseShard: the file is read before writer.close() has
\* flushed the last record
ChecksumBeforeClose(w, d) ==
  IF w.writer
  THEN LET c == d[w.current_shard_path]
       IN Put(w.checksums, w.current_shard_path,
              MD5(IF c = <<>> THEN c ELSE SubSeq(c, 1, Len(c) - 1)))
  ELSE w.checksums

\* lines 160-163 and 180-182: close the open writer and record the shard's checksum
CloseShard(w, d) ==
  IF w.writer
  THEN Put(w.checksums, w.current_shard_path, MD5(d[w.current_shard_path]))
  ELSE w.checksums

\* faulty variant of NeedsRollover: rolls over one byte before the threshold
RolloverEarly(w, thr) == ~w.writer \/ w.current_size + 1 >= thr

\* line 159
NeedsRollover(w, thr) == ~w.writer \/ w.current_size >= thr

\* faulty variant of NextIndex: shard_idx += 1 left out
SameIndex(idx) == idx

\* line 168
NextIndex(idx) == idx + 1

\* lines 159-170: the shard-opening block
OpenShard(w, d, prefix, thr) ==
  IF NeedsRollover(w, thr)
  THEN LET name == ShardName(prefix, w.shard_idx)
       IN [w |-> [shard_paths |-> Append(w.shard_paths, name),
                  checksums |-> CloseShard(w, d),
                  shard_idx |-> NextIndex(w.shard_idx),
                  current_size |-> 0,
                  writer |-> TRUE,
                  current_shard_path |-> name],
           d |-> Put(d, name, <<>>)]
  ELSE [w |-> w, d |-> d]

\* lines 172-177: the try block
TryWrite(w, d, img) ==
  IF create_example_raises(img)
  THEN [w |-> w, d |-> d]
  ELSE LET serialized == create_example(img)
       IN [w |-> [w EXCEPT !.current_size = @ + serialized.len],
           d |-> [d EXCEPT ![w.current_shard_path] = Append(@, serialized)]]

\* one iteration of the for loop, lines 158-177
LoopBody(w, d, img, prefix, thr) ==
  LET o == OpenShard(w, d, prefix, thr)
  IN TryWrite(o.w, o.d, img)

\* lines 179-182
FinalClose(w, d) == [w EXCEPT !.checksums = CloseShard(w, d), !.writer = FALSE]

WriteSample ==
  /\ pc = "ws_loop"
  /\ pos < Len(images)
  /\ LET n == LoopBody(ws, disk, images[pos + 1], output_prefix, shard_size_bytes)
     IN ws' = n.w /\ disk' = n.d
  /\ pos' = pos + 1
  /\ UNCHANGED <<pc, images, output_prefix, shard_size_bytes, findVars, requestVars,
                 splitVars, manifestVars, sinkVars, err, result>>

WriteClose ==
  /\ pc = "ws_loop"
  /\ pos = Len(images)
  /\ ws' = FinalClose(ws, disk)
  /\ pc' = "ws_return"
  /\ UNCHANGED <<disk, pos, images, output_prefix, shard_size_bytes, findVars,
                 requestVars, splitVars, manifestVars, sinkVars, err, result>>

(***************************************************************************)
(* Values of the variables an operation does not use.                      *)
(***************************************************************************)
NoWs ==
  [shard_paths |-> <<>>, checksums |-> <<>>, shard_idx |-> 0, current_size |-> 0,
   writer |-> FALSE, current_shard_path |-> NonePath]

\* the project document before the request: no dataset.shard* field yet
NoSink == [conversionStatus |-> "uploaded"]

NoFound == [res |-> None, visited |-> <<>>]

InitRequest == shard_size_mb = 0 /\ val_split = 0

InitFind == max_depth = DefaultMaxDepth /\ found = NoFound

InitSplit ==
  /\ folders = None
  /\ class_names = <<>>
  /\ shuffled = <<>>
  /\ train_images = <<>>
  /\ val_images = <<>>
  /\ test_images = <<>>

InitShards ==
  /\ images = <<>>
  /\ output_prefix = ""
  /\ shard_size_bytes = 0
  /\ pos = 0
  /\ ws = NoWs
  /\ disk = <<>>

InitManifest ==
  /\ all_shard_paths = [train |-> <<>>, val |-> <<>>, test |-> <<>>]
  /\ all_checksums = <<>>
  /\ metadata = <<>>
  /\ uploaded = {}

InitSink ==
  /\ sink = NoSink
  /\ sinkLog = <<>>
  /\ sinkRaised = {}
  /\ failedTold = FALSE

InitOutcome == err = "" /\ result = [status |-> "none"]

(***************************************************************************)
(* convert_to_tfrecord: lines 242-272, class indexing and split planning.  *)
(***************************************************************************)
\* the entry named `name` in a directory (os.path.join + os.path.exists)
HasChild(node, name) == \E i \in 1..Len(node.listing) : node.listing[i].name = name

Child(node, name) ==
  node.listing[CHOOSE i \in 1..Len(node.listing) : node.listing[i].name = name]

RECURSIVE NodeAt(_, _)
NodeAt(node, path) ==
  IF path = <<>> THEN node ELSE NodeAt(Child(node, Head(path)), Tail(path))

\* the directory names of the model in Python's string order (code points)
NameOrder ==
  <<"TRAIN", "Test", "Train", "Training", "Val", "__MACOSX", "__pycache__", "bird",
    "cat", "data", "dog", "extracted", "myproject-main", "test", "train", "training",
    "val", "validation">>

IsClassDir(e) == e.isdir /\ e.name \notin ClassExcluded

\* sorted([d for d in os.listdir(train_dir) if isdir(d) and d not in [...]])
ClassNames(train_node) ==
  LET present == {e.name : e \in {x \in Range(train_node.listing) : IsClassDir(x)}}
      InPresent(n) == n \in present
  IN SelectSeq(NameOrder, InPresent)

RECURSIVE CollectFrom(_, _, _, _)
\* for class_name in class_names (from the k-th on): extend with collect_images(...)
\* when the class folder exists under `root`; class_to_idx[class_name] = k - 1
CollectFrom(root, root_path, names, k) ==
  IF k > Len(names) THEN <<>>
  ELSE (IF HasChild(root, names[k])
        THEN collect_images(Child(root, names[k]).listing, Append(root_path, names[k]), k - 1)
        ELSE <<>>) \o CollectFrom(root, root_path, names, k + 1)

\* random.seed(42); random.shuffle(list(range(1, n + 1))) for n = 1..7 (CPython)
Shuffle42Perm ==
  <<<<1>>, <<2, 1>>, <<2, 1, 3>>, <<3, 2, 4, 1>>, <<4, 2, 3, 5, 1>>,
    <<4, 2, 3, 5, 1, 6>>, <<2, 4, 5, 3, 7, 1, 6>>>>

Shuffle42(s) ==
  IF s = <<>> THEN <<>> ELSE [i \in 1..Len(s) |-> s[Shuffle42Perm[Len(s)][i]]]

\* faulty variant of SplitIdx: int(len(train_images) * val_split)
WrongSplitIdx(n, num) == (n * num) \div FracDen

\* int(len(train_images) * (1 - val_split)), val_split = num / FracDen
SplitIdx(n, num) == (n * (FracDen - num)) \div FracDen

\* faulty variant of SplitApplies: test_dir is not consulted
SplitAlways(test_dir, num) == num > 0

\* line 262
SplitApplies(test_dir, num) == test_dir = NonePath /\ num > 0

\* lines 264-265
ValPart(s, idx) == SubSeq(s, idx + 1, Len(s))

TrainPart(s, idx) == SubSeq(s, 1, idx)

(***************************************************************************)
(* convert_to_tfrecord: the status document and the handler's steps.       *)
(***************************************************************************)
\* project_ref.update(fields) applied
Updated(doc, fields) == fields @@ doc

Logged(log, fields) ==
  IF "conversionStatus" \in DOMAIN fields THEN Append(log, fields.conversionStatus) ELSE log

\* project_ref.update(fields) at position `at`: it returns and the handler goes on
\* to `next`, or it raises and the handler's except clause takes over
SinkUpdate(at, fields, next) ==
  /\ pc = at
  /\ \E raises \in BOOLEAN :
       IF raises
       THEN /\ sinkRaised' = sinkRaised \cup {at}
            /\ err' = "SinkUnavailable"
            /\ pc' = "except"
            /\ UNCHANGED <<sink, sinkLog>>
       ELSE /\ sink' = Updated(sink, fields)
            /\ sinkLog' = Logged(sinkLog, fields)
            /\ pc' = next
            /\ UNCHANGED <<sinkRaised, err>>
  /\ UNCHANGED <<failedTold, findVars, requestVars, splitVars, shardVars, manifestVars, result>>

\* an I/O call at position `at` that returns, or raises `what`
IoStep(at, what, next) ==
  /\ pc = at
  /\ \E raises \in BOOLEAN :
       IF raises THEN err' = what /\ pc' = "except" ELSE pc' = next /\ UNCHANGED err
  /\ UNCHANGED <<findVars, requestVars, splitVars, shardVars, manifestVars, sinkVars, result>>

\* lines 213-217
SetConverting ==
  SinkUpdate("start", [conversionStatus |-> "converting", conversionProgress |-> 0],
             "download")

\* line 226
Download == IoStep("download", "DownloadError", "progress10")

\* line 230
Progress10 == SinkUpdate("progress10", [conversionProgress |-> 10], "extract")

\* lines 234-236
Extract == IoStep("extract", "BadZipFile", "find")

\* lines 238-240: folders['train'] on None raises TypeError
FindLayout ==
  /\ pc = "find"
  /\ found' = find_image_folder(tree, DefaultMaxDepth)
  /\ folders' = found'.res
  /\ IF found'.res.found
     THEN pc' = "plan" /\ UNCHANGED err
     ELSE pc' = "except" /\ err' = "'NoneType' object is not subscriptable"
  /\ UNCHANGED <<tree, max_depth, requestVars, class_names, shuffled, train_images,
                 val_images, test_images, shardVars, manifestVars, sinkVars, result>>

\* lines 242-272
PlanSplits ==
  /\ pc = "plan"
  /\ LET train_node == NodeAt(tree, folders.train)
         names == ClassNames(train_node)
         pool == Shuffle42(CollectFrom(train_node, folders.train, names, 1))
         split_idx == SplitIdx(Len(pool), val_split)
     IN /\ class_names' = names
        /\ shuffled' = pool
        /\ IF SplitApplies(folders.test, val_split)
           THEN /\ val_images' = ValPart(pool, split_idx)
                /\ train_images' = TrainPart(pool, split_idx)
           ELSE /\ val_images' = <<>>
                /\ train_images' = pool
        /\ test_images' =
             IF folders.test # NonePath
             THEN CollectFrom(NodeAt(tree, folders.test), folders.test, names, 1)
             ELSE <<>>
  /\ pc' = "progress50"
  /\ UNCHANGED <<folders, findVars, requestVars, shardVars, manifestVars, sinkVars, err, result>>

\* line 274
Progress50 == SinkUpdate("progress50", [conversionProgress |-> 50], "call_train")

\* write_shards(imgs, os.path.join(shards_dir, prefix), shard_size_bytes) is entered
CallWriteShards(imgs, prefix) ==
  /\ images' = imgs
  /\ output_prefix' = prefix
  /\ shard_size_bytes' = shard_size_mb * MiB
  /\ pos' = 0
  /\ ws' = NoWs
  /\ pc' = "ws_loop"
  /\ UNCHANGED <<disk, findVars, requestVars, splitVars, manifestVars, sinkVars, err, result>>

SkipTo(next) ==
  /\ pc' = next
  /\ UNCHANGED <<findVars, requestVars, splitVars, shardVars, manifestVars, sinkVars, err, result>>

\* all_shard_paths[split] = shards; all_checksums.update(checksums)
ReturnShards(split, next) ==
  /\ pc = "ws_return"
  /\ output_prefix = split
  /\ all_shard_paths' = [all_shard_paths EXCEPT ![split] = ws.shard_paths]
  /\ all_checksums' = ws.checksums @@ all_checksums
  /\ pc' = next
  /\ UNCHANGED <<metadata, uploaded, findVars, requestVars, splitVars, shardVars, sinkVars,
                 err, result>>

\* lines 280-290
CallTrain == pc = "call_train" /\ CallWriteShards(train_images, "train")

\* lines 291-292
ReturnTrain == ReturnShards("train", "progress70")

\* line 294
Progress70 == SinkUpdate("progress70", [conversionProgress |-> 70], "call_val")

\* lines 297-303
CallVal ==
  /\ pc = "call_val"
  /\ IF val_images # <<>> THEN CallWriteShards(val_images, "val") ELSE SkipTo("call_test")

\* lines 304-305
ReturnVal == ReturnShards("val", "call_test")

\* lines 308-314
CallTest ==
  /\ pc = "call_test"
  /\ IF test_images # <<>> THEN CallWriteShards(test_images, "test") ELSE SkipTo("progress80")

\* lines 315-316
ReturnTest == ReturnShards("test", "progress80")

\* line 318
Progress80 == SinkUpdate("progress80", [conversionProgress |-> 80], "metadata")

\* lines 324-326: the sample counts of the manifest
PlannedCount(imgs) == Len(imgs)

SampleCounts ==
  [trainSamples |-> PlannedCount(train_images),
   valSamples |-> IF val_images # <<>> THEN PlannedCount(val_images) ELSE 0,
   testSamples |-> IF test_images # <<>> THEN PlannedCount(test_images) ELSE 0]

MetadataName == [prefix |-> "metadata", digits |-> <<>>, ext |-> ".json"]

\* lines 321-336
WriteMetadata ==
  /\ pc = "metadata"
  /\ metadata' = [numClasses |-> Len(class_names),
                  classNames |-> class_names,
                  shardPaths |-> all_shard_paths,
                  checksums |-> all_checksums,
                  shardSizeMB |-> shard_size_mb] @@ SampleCounts
  /\ disk' = Put(disk, MetadataName, <<>>)
  /\ pc' = "upload"
  /\ UNCHANGED <<all_shard_paths, all_checksums, uploaded, images, output_prefix,
                 shard_size_bytes, pos, ws, findVars, requestVars, splitVars, sinkVars,
                 err, result>>

\* lines 342-347: one blob.upload_from_filename of the loop over os.listdir(shards_dir)
UploadOne ==
  /\ pc = "upload"
  /\ \E f \in DOMAIN disk \ uploaded :
       \E raises \in BOOLEAN :
         IF raises
         THEN err' = "UploadError" /\ pc' = "except" /\ UNCHANGED uploaded
         ELSE uploaded' = uploaded \cup {f} /\ UNCHANGED <<pc, err>>
  /\ UNCHANGED <<all_shard_paths, all_checksums, metadata, findVars, requestVars, splitVars,
                 shardVars, sinkVars, result>>

\* faulty variant of UploadComplete: the loop is left after the first upload
UploadStopsEarly(d, up) == up # {}

\* the loop of line 342 is exhausted
UploadComplete(d, up) == DOMAIN d \subseteq up

UploadDone ==
  /\ pc = "upload"
  /\ UploadComplete(disk, uploaded)
  /\ SkipTo("progress95")

\* line 349
Progress95 == SinkUpdate("progress95", [conversionProgress |-> 95], "complete")

GcsPrefix == "gs://bucket/projects/p/datasets/h/shards"

\* lines 352-365
SetCompleted ==
  SinkUpdate("complete",
             [conversionStatus |-> "completed",
              conversionProgress |-> 100,
              shardPaths |-> all_shard_paths,
              shardMetadata |-> [numClasses |-> Len(class_names),
                                 classNames |-> SubSeq(class_names, 1,
                                                       Min(ClassNameCap, Len(class_names))),
                                 shardSizeMB |-> shard_size_mb] @@ SampleCounts,
              shardsGcsPrefix |-> GcsPrefix],
             "return_ok")

\* lines 369-374
ReturnSuccess ==
  /\ pc = "return_ok"
  /\ result' = [status |-> "success", shardPaths |-> all_shard_paths,
                metadata |-> metadata, gcsPrefix |-> GcsPrefix]
  /\ pc' = "done"
  /\ UNCHANGED <<findVars, requestVars, splitVars, shardVars, manifestVars, sinkVars, err>>

\* lines 376-393: the 'failed' update is attempted; its own failure is swallowed
HandleException ==
  /\ pc = "except"
  /\ failedTold' = TRUE
  /\ \E raises \in BOOLEAN :
       LET fields == [conversionStatus |-> "failed", conversionError |-> err]
       IN IF raises
          THEN sinkRaised' = sinkRaised \cup {"except"} /\ UNCHANGED <<sink, sinkLog>>
          ELSE /\ sink' = Updated(sink, fields)
               /\ sinkLog' = Logged(sinkLog, fields)
               /\ UNCHANGED sinkRaised
  /\ result' = [status |-> "error", error |-> err]
  /\ pc' = "done"
  /\ UNCHANGED <<findVars, requestVars, splitVars, shardVars, manifestVars, err>>

(***************************************************************************)
(* Spec: one invocation of convert_to_tfrecord on every archive of a       *)
(* bounded family and every request.                                       *)
(***************************************************************************)
Notes == File("notes", ".txt", TRUE, 1)

\* the i-th file is 2 MiB or 1 MiB serialized; file `bad` cannot be read
CatFiles(n, bad) ==
  [i \in 1..n |-> File(PadNames[i], IF i % 2 = 1 THEN ".jpg" ELSE ".PNG", i # bad,
                       MiB * (1 + (i % 2)))]

DogFiles(n) == [i \in 1..n |-> File("d01", ".png", TRUE, MiB)]

TrainListing(nCat, bad, nDog) ==
  <<Dir("dog", DogFiles(nDog)), Dir("__MACOSX", <<>>), Dir("cat", <<Notes>> \o CatFiles(nCat, bad))>>

TestListing ==
  <<Dir("cat", <<File("t01", ".jpg", TRUE, MiB), File("t02", ".jpg", FALSE, MiB)>>),
    Dir("bird", <<File("b01", ".jpg", TRUE, MiB)>>)>>

Archive(layout, nCat, bad, nDog) ==
  LET classes == TrainListing(nCat, bad, nDog)
  IN CASE layout = "none" -> Dir("extracted", <<Notes>>)
       [] layout = "flat" -> Dir("extracted", classes)
       [] layout = "train" -> Dir("extracted", <<Dir("train", classes)>>)
       [] layout = "train_test" ->
            Dir("extracted", <<Dir("Train", classes), Dir("test", TestListing)>>)
       [] layout = "wrapped" ->
            Dir("extracted",
                <<Dir("myproject-main",
                      <<Dir("data", <<Dir("train", classes),
                                      Dir("validation", TestListing)>>)>>)>>)

Archives ==
  {Archive(layout, nCat, bad, nDog) :
     layout \in {"none", "flat", "train", "train_test", "wrapped"},
     nCat \in 0..MaxPerClass, bad \in 0..MaxPerClass, nDog \in 0..1}

Init ==
  /\ tree \in Archives
  /\ shard_size_mb \in 0..MaxShardMB
  /\ val_split \in 0..FracDen
  /\ pc = "start"
  /\ InitFind /\ InitSplit /\ InitShards /\ InitManifest /\ InitSink /\ InitOutcome

Next ==
  \/ SetConverting \/ Download \/ Progress10 \/ Extract \/ FindLayout \/ PlanSplits
  \/ Progress50 \/ CallTrain \/ WriteSample \/ WriteClose \/ ReturnTrain \/ Progress70
  \/ CallVal \/ ReturnVal \/ CallTest \/ ReturnTest \/ Progress80 \/ WriteMetadata
  \/ UploadOne \/ UploadDone \/ Progress95 \/ SetCompleted \/ ReturnSuccess
  \/ HandleException

Spec == Init /\ [][Next]_vars

RECURSIVE Concat(_, _)
\* the records of the shards named by `names`, in that order
Concat(names, d) ==
  IF names = <<>> THEN <<>> ELSE d[Head(names)] \o Concat(Tail(names), d)

NoDuplicates(s) == \A i, j \in 1..Len(s) : s[i] = s[j] => i = j

Splits == {"train", "val", "test"}

Planned ==
  pc \notin {"start", "download", "progress10", "extract", "find", "plan", "find_call",
             "find_done"}
  /\ folders.found

\* the samples collect_images gathers under the resolved train folder
TrainPool ==
  LET train_node == NodeAt(tree, folders.train)
  IN CollectFrom(train_node, folders.train, ClassNames(train_node), 1)

\* the records in the shards of a split
Written(split) == Concat(all_shard_paths[split], disk)

CountField(split) ==
  CASE split = "train" -> "trainSamples"
    [] split = "val" -> "valSamples"
    [] split = "test" -> "testSamples"

(* C2: in a completed conversion each of trainSamples, valSamples and       *)
(* testSamples of the manifest equals the number of records written to     *)
(* the split's shards (the planned samples minus the skipped ones).        *)
C2_ManifestCountsWritten ==
  (pc = "done" /\ result.status = "success") =>
    \A split \in Splits : metadata[CountField(split)] = Len(Written(split))

(* C3: when only status-document updates raise (the layout is found, no     *)
(* download, extraction or upload fails), the conversion still writes the  *)
(* manifest and returns success.                                           *)
C3_SinkFailureNeverAborts ==
  (pc = "done" /\ err \notin {"DownloadError", "BadZipFile", "UploadError",
                              "'NoneType' object is not subscriptable"}) =>
    /\ result.status = "success"
    /\ MetadataName \in DOMAIN disk

AllShards == Range(all_shard_paths.train \o all_shard_paths.val \o all_shard_paths.test)

(* C4: a checksum is recorded for a shard only once it is closed and equals *)
(* the digest of the shard's content from then on; when write_shards       *)
(* returns the checksum map has exactly the returned shard names; the      *)
(* merged map of a run has exactly one entry per shard of the three        *)
(* splits, each the digest of that shard's file.                           *)
C4_ChecksumsMatchShards ==
  /\ \A f \in DOMAIN ws.checksums :
       /\ ws.checksums[f] = MD5(disk[f])
       /\ ws.writer => f # ws.current_shard_path
  /\ pc = "ws_return" =>
       /\ DOMAIN ws.checksums = Range(ws.shard_paths)
       /\ NoDuplicates(ws.shard_paths)
  /\ DOMAIN all_checksums = AllShards
  /\ NoDuplicates(all_shard_paths.train \o all_shard_paths.val \o all_shard_paths.test)
  /\ \A f \in DOMAIN all_checksums : all_checksums[f] = MD5(disk[f])
  /\ metadata # <<>> =>
       /\ metadata.checksums = all_checksums
       /\ metadata.shardPaths = all_shard_paths

C4_Witness ==
  /\ pc = "done"
  /\ result.status = "success"
  /\ Len(all_shard_paths.train) >= 2
  /\ Len(all_shard_paths.val) >= 1
  /\ \E f \in Range(all_shard_paths.train) : Len(disk[f]) >= 2

C8_TerminalStatus ==
  /\ (pc = "done" /\ result.status = "error" /\ "converting" \in Range(sinkLog)) =>
       /\ failedTold
       /\ result.error # ""
       /\ "completed" \notin Range(sinkLog)
       /\ "shardPaths" \notin DOMAIN sink
       /\ "shardMetadata" \notin DOMAIN sink
       /\ "except" \notin sinkRaised =>
            /\ sink.conversionStatus = "failed"
            /\ "conversionError" \in DOMAIN sink
            /\ sink.conversionError = result.error
  /\ "completed" \in Range(sinkLog) =>
       /\ sink.conversionStatus = "completed"
       /\ sink.conversionProgress = 100
       /\ sink.shardPaths = all_shard_paths
       /\ sink.shardMetadata.trainSamples = metadata.trainSamples
       /\ AllShards \subseteq uploaded
       /\ MetadataName \in uploaded
  /\ \A i, j \in 1..Len(sinkLog) :
       (i < j /\ sinkLog[i] = "completed") => sinkLog[j] # "failed"

C8_Witness ==
  /\ pc = "done"
  /\ err = "UploadError"
  /\ uploaded # {}
  /\ sinkLog = <<"converting", "failed">>
  /\ sink.conversionError = "UploadError"

\* the class folder a sample was collected from, and its label from class_names
ClassOf(img, root_path) == img.path[Len(root_path) + 1]

LabelOf(name) == (CHOOSE k \in 1..Len(class_names) : class_names[k] = name) - 1

(* C10: val is non-empty only without a test folder and with valSplit > 0;  *)
(* test is non-empty only with a resolved test folder; never both; with a  *)
(* test folder the whole shuffled train pool stays in train, and every     *)
(* test sample lies in the test folder under a class of the train folder   *)
(* and carries that class's label.                                         *)
C10_SplitSetShape ==
  Planned =>
    /\ val_images # <<>> => (folders.test = NonePath /\ val_split > 0)
    /\ test_images # <<>> => folders.test # NonePath
    /\ ~(val_images # <<>> /\ test_images # <<>>)
    /\ folders.test # NonePath =>
         /\ train_images = shuffled
         /\ Range(train_images) = Range(TrainPool)
         /\ Len(train_images) = Len(TrainPool)
         /\ \A t \in Range(test_images) :
              /\ SubSeq(t.path, 1, Len(folders.test)) = folders.test
              /\ Len(t.path) = Len(folders.test) + 2
              /\ HasChild(NodeAt(tree, folders.train), ClassOf(t, folders.test))
              /\ ClassOf(t, folders.test) \in Range(class_names)
              /\ t.label = LabelOf(ClassOf(t, folders.test))

C10_Witness ==
  /\ Planned
  /\ folders.test # NonePath
  /\ val_split > 0
  /\ test_images # <<>>
  /\ Len(train_images) >= 2
  /\ val_images = <<>>

(***************************************************************************)
(* SpecFind: find_image_folder on every tree of a bounded family, with     *)
(* every depth limit up to MaxSearchDepth.                                 *)
(***************************************************************************)
ImgFile == File("a", ".JPG", TRUE, 1)

\* ListCap files that are no images, then an image: the image is past the [:20] cut
LateImage == [i \in 1..ListCap |-> File(PadNames[i], ".txt", TRUE, 1)] \o <<ImgFile>>

ClassListings == {<<>>, <<ImgFile>>, LateImage}

ClassDirs == {Dir(n, l) : n \in {"cat", "dog"}, l \in ClassListings}

\* sequences of at most two entries of S with different names
UpToTwo(S) ==
  {<<>>} \cup {<<a>> : a \in S}
         \cup {p \in S \X S : p[1].name # p[2].name}

MidListings == UpToTwo(ClassDirs) \cup {<<ImgFile>>}

MidDirs ==
  {Dir(n, l) : n \in {"train", "Training", "test", "data", "__MACOSX"}, l \in MidListings}

FindTrees == {Dir("extracted", l) : l \in UpToTwo(MidDirs)}

InitFindSpec ==
  /\ tree \in FindTrees
  /\ max_depth \in 0..MaxSearchDepth
  /\ found = NoFound
  /\ pc = "find_call"
  /\ InitRequest /\ InitSplit /\ InitShards /\ InitManifest /\ InitSink /\ InitOutcome

FindImageFolder ==
  /\ pc = "find_call"
  /\ found' = find_image_folder(tree, max_depth)
  /\ pc' = "find_done"
  /\ UNCHANGED <<tree, max_depth, requestVars, splitVars, shardVars, manifestVars,
                 sinkVars, err, result>>

NextFind == FindImageFolder

SpecFind == InitFindSpec /\ [][NextFind]_vars

\* the train/training subdirectories of `subdirs` holding a subdirectory with images
TrainCandidates(subdirs) ==
  {d \in Range(subdirs) :
     /\ Lower(d.name) \in {"train", "training"}
     /\ \E k \in 1..Len(get_subdirs(d)) : has_images(get_subdirs(d)[k])}

(* C7: whenever a directory search() examines has a train/training          *)
(* subdirectory holding at least one subdirectory with an image among its  *)
(* first 20 entries, find_image_folder returns that train folder, with the *)
(* sibling test/val/validation folder, and neither the flat rule nor the   *)
(* recursion is reached.                                                   *)
C7_TrainFolderAuthoritative ==
  pc = "find_done" =>
    \A i \in 1..Len(found.visited) :
      LET v == found.visited[i]
          subdirs == get_subdirs(v.node)
      IN TrainCandidates(subdirs) # {} =>
           /\ found.res.found
           /\ found.res.base = v.path
           /\ found.res.train \in {Append(v.path, d.name) : d \in TrainCandidates(subdirs)}
           /\ found.res.test = TestDirOf(subdirs, v.path)

(***************************************************************************)
(* SpecShards: write_shards on every sample sequence up to MaxImages, with *)
(* every subset of unreadable samples, record lengths 1..MaxLen and        *)
(* thresholds 0..MaxThreshold.                                             *)
(***************************************************************************)
Attrs == [ok : BOOLEAN, slen : 1..MaxLen]

SampleOf(i, a) ==
  [path |-> <<"train", "cat", PadNames[i]>>, ext |-> ".jpg", label |-> i % 2,
   ok |-> a.ok, slen |-> a.slen]

SampleSeqs ==
  UNION {{[i \in 1..n |-> SampleOf(i, as[i])] : as \in [1..n -> Attrs]} : n \in 0..MaxImages}

InitShardsSpec ==
  /\ images \in SampleSeqs
  /\ shard_size_bytes \in 0..MaxThreshold
  /\ output_prefix = "train"
  /\ pos = 0
  /\ ws = NoWs
  /\ disk = <<>>
  /\ pc = "ws_loop"
  /\ tree = Dir("extracted", <<>>)
  /\ InitFind /\ InitRequest /\ InitSplit /\ InitManifest /\ InitSink /\ InitOutcome

NextShards == WriteSample \/ WriteClose

SpecShards == InitShardsSpec /\ [][NextShards]_vars

RECURSIVE Encoded(_)
\* the records of the samples of `imgs` that encode, in input order
Encoded(imgs) ==
  IF imgs = <<>> THEN <<>>
  ELSE (IF Head(imgs).ok THEN <<create_example(Head(imgs))>> ELSE <<>>) \o Encoded(Tail(imgs))

(* C1: after write_shards returns, the records of the returned shards, in   *)
(* shard order, are exactly the successfully encoded samples in input      *)
(* order: none duplicated, none dropped, no failed sample present.         *)
C1_ShardCoverage ==
  pc = "ws_return" =>
    /\ NoDuplicates(ws.shard_paths)
    /\ Concat(ws.shard_paths, disk) = Encoded(images)

C1_Witness ==
  /\ pc = "ws_return"
  /\ Len(ws.shard_paths) >= 2
  /\ \E i \in 1..Len(images) : ~images[i].ok
  /\ Len(Encoded(images)) >= 3

(* C6: every shard of a split but the last holds at least shard_size_bytes  *)
(* of records: a new shard is opened only once the open one has reached    *)
(* the threshold.                                                          *)
C6_RolloverAtThreshold ==
  \A k \in 1..(Len(ws.shard_paths) - 1) :
    SumLen(disk[ws.shard_paths[k]]) >= shard_size_bytes

C6_Witness ==
  /\ pc = "ws_return"
  /\ shard_size_bytes >= 2
  /\ Len(ws.shard_paths) >= 2
  /\ \E k \in 1..(Len(ws.shard_paths) - 1) : Len(disk[ws.shard_paths[k]]) >= 2

(* C9: a sample whose encoding fails leaves shard_idx, shard_paths, the     *)
(* shard files and current_size as they were, wherever it stands in the    *)
(* sequence.                                                               *)
C9_FailedSampleNoEffect ==
  [][(pc = "ws_loop" /\ pos < Len(images) /\ ~images[pos + 1].ok) =>
       /\ ws'.shard_idx = ws.shard_idx
       /\ ws'.shard_paths = ws.shard_paths
       /\ ws'.current_size = ws.current_size
       /\ disk' = disk]_vars

====
